---- MODULE Spec2Model ----
(***************************************************************************)
(* cfurl (src/main.rs): one run of the command-line tool.                  *)
(*                                                                         *)
(* A run parses one subcommand, resolves it to a dashboard URL with the    *)
(* helpers zone_url and account_url, starts a spinner, hands the URL to    *)
(* open::that, and then either reports the failure on the error stream and *)
(* exits with status 1, or sleeps, clears the spinner, prints the          *)
(* confirmation and returns from main (status 0).                          *)
(*                                                                         *)
(* Rust Strings are TLA+ strings (Len, \o and SubSeq act on them           *)
(* character by character).  Option<String> is a sequence of length 0      *)
(* (None) or 1 (Some(s)).  The two non-ASCII marks of the messages are     *)
(* written as their code points, since a module is ASCII text.             *)
(***************************************************************************)
EXTENDS Naturals, Sequences, FiniteSets, TLC

VARIABLES
    pc,         \* position of main
    cli,        \* the parsed Commands variant (main.rs:207), NoCommand before
    url,        \* the local `url` of main (main.rs:209), <<>> before it is bound
    spinner,    \* the ProgressBar: state, message and tick frame
    openCalls,  \* arguments open::that has been called with, in order
    openResult, \* what open::that returned: <<>> before, then Ok or Err(e)
    stdout,     \* lines printed with println!
    stderr,     \* lines printed with eprintln! (or by the argument parser)
    exitCode    \* <<>> while running, <<status>> once the process has ended

vars == <<pc, cli, url, spinner, openCalls, openResult, stdout, stderr, exitCode>>

----------------------------------------------------------------------------
(* Bounds of the model *)

\* Longest zone / resource name built from Alphabet.
MaxArgLen == 2

\* Characters the generated argument strings are made of.  "/" is the
\* URL-meaningful one, "." the one domain names have.
Alphabet == {"z", "/", "."}

RECURSIVE StringsUpTo(_)
StringsUpTo(n) ==
    IF n = 0 THEN {""}
    ELSE LET S == StringsUpTo(n - 1) IN S \cup {s \o c : s \in S, c \in Alphabet}

\* Zone and resource-name arguments: every string over Alphabet up to
\* MaxArgLen (the empty string included: clap accepts an empty argument),
\* and two realistic names.
ArgStrings == StringsUpTo(MaxArgLen) \cup {"example.com", "svc"}

\* Values of --section: the vocabulary, and strings outside it.
SectionStrings == {"waf", "events", "ddos", "bots", "", "WAF", "Bots", "bogus", "security/waf"}

\* Failure descriptions open::that can return (the Display of an io::Error).
OpenErrors == {"No such file or directory (os error 2)", "Launcher xdg-open failed with exit status: 3"}

----------------------------------------------------------------------------
(* Option<String> *)

None == <<>>
Some(s) == <<s>>
IsSome(o) == Len(o) = 1
Unwrap(o) == o[1]
OptionOf(S) == {None} \cup {Some(s) : s \in S}

----------------------------------------------------------------------------
(* The Commands enum, main.rs:19-204 *)

\* Variants with one required zone and a fixed subpath.
ZoneKinds == {"Dns", "Analytics", "Ssl", "Caching", "Rules", "Speed", "Email",
              "Spectrum", "Network", "Traffic", "Scrape", "Zaraz", "Zone"}

\* Variants with one optional resource name.
NamedKinds == {"Workers", "Pages", "R2", "D1", "Kv"}

\* Variants without fields.
UnitKinds == {"ZeroTrust", "Access", "Tunnels", "Stream", "Images", "Queues", "Ai",
              "Vectorize", "Hyperdrive", "DurableObjects", "Account", "Billing",
              "AuditLog", "ApiTokens", "Registrar", "Turnstile", "WebAnalytics", "Dash"}

\* A variant is a record: kind, its first field (zone or name) as an
\* Option, and the section of Security as an Option.
Cmd(k, a, s) == [kind |-> k, arg |-> a, section |-> s]

NoCommand == Cmd("", None, None)

Commands ==
    {Cmd(k, Some(z), None) : k \in ZoneKinds, z \in ArgStrings}
    \cup {Cmd("Security", Some(z), s) : z \in ArgStrings, s \in OptionOf(SectionStrings)}
    \cup {Cmd("Logs", z, None) : z \in OptionOf(ArgStrings)}
    \cup {Cmd(k, n, None) : k \in NamedKinds, n \in OptionOf(ArgStrings)}
    \cup {Cmd(k, None, None) : k \in UnitKinds}

----------------------------------------------------------------------------
(* URL construction *)

DASH_BASE == "https://dash.cloudflare.com"

\* zone_url without the test for an empty path: the separator is always
\* written.
zone_url_always_slash(zone, path) ==
    DASH_BASE \o "/?to=/:account/" \o zone \o "/" \o path

\* main.rs:296-302
zone_url(zone, path) ==
    IF path = ""
    THEN DASH_BASE \o "/?to=/:account/" \o zone
    ELSE DASH_BASE \o "/?to=/:account/" \o zone \o "/" \o path

\* account_url with the "/" after the origin dropped from both templates.
account_url_no_root_slash(path) ==
    IF path = ""
    THEN DASH_BASE \o "?to=/:account"
    ELSE DASH_BASE \o "?to=/:account/" \o path

\* main.rs:304-310
account_url(path) ==
    IF path = ""
    THEN DASH_BASE \o "/?to=/:account"
    ELSE DASH_BASE \o "/?to=/:account/" \o path

\* ZoneSubpath with the subpath of Ssl misspelt ("ssl" for "ssl-tls").
ZoneSubpath_ssl_typo(kind) ==
    CASE kind = "Dns"       -> "dns"
      [] kind = "Analytics" -> "analytics"
      [] kind = "Ssl"       -> "ssl"
      [] kind = "Caching"   -> "caching"
      [] kind = "Rules"     -> "rules"
      [] kind = "Speed"     -> "speed"
      [] kind = "Email"     -> "email"
      [] kind = "Spectrum"  -> "spectrum"
      [] kind = "Network"   -> "network"
      [] kind = "Traffic"   -> "traffic"
      [] kind = "Scrape"    -> "content-protection"
      [] kind = "Zaraz"     -> "zaraz"
      [] kind = "Zone"      -> ""

\* main.rs:210-211, 222-232: the subpath each zone command passes to zone_url.
ZoneSubpath(kind) ==
    CASE kind = "Dns"       -> "dns"
      [] kind = "Analytics" -> "analytics"
      [] kind = "Ssl"       -> "ssl-tls"
      [] kind = "Caching"   -> "caching"
      [] kind = "Rules"     -> "rules"
      [] kind = "Speed"     -> "speed"
      [] kind = "Email"     -> "email"
      [] kind = "Spectrum"  -> "spectrum"
      [] kind = "Network"   -> "network"
      [] kind = "Traffic"   -> "traffic"
      [] kind = "Scrape"    -> "content-protection"
      [] kind = "Zaraz"     -> "zaraz"
      [] kind = "Zone"      -> ""

\* security_path with the "bots" arm missing.
security_path_no_bots(section) ==
    CASE section = Some("waf")    -> "security/waf"
      [] section = Some("events") -> "security/events"
      [] section = Some("ddos")   -> "security/ddos"
      [] OTHER                    -> "security"

\* main.rs:213-219: match section.as_deref()
security_path(section) ==
    CASE section = Some("waf")    -> "security/waf"
      [] section = Some("events") -> "security/events"
      [] section = Some("ddos")   -> "security/ddos"
      [] section = Some("bots")   -> "security/bots"
      [] OTHER                    -> "security"

\* logs_url taking an empty zone for an absent one.
logs_url_empty_is_absent(zone) ==
    IF IsSome(zone) /\ Unwrap(zone) # ""
    THEN zone_url(Unwrap(zone), "analytics/logs")
    ELSE account_url("logs")

\* main.rs:233 and 271: the two arms of Logs.
logs_url(zone) ==
    IF IsSome(zone)
    THEN zone_url(Unwrap(zone), "analytics/logs")
    ELSE account_url("logs")

\* main.rs:236, 240, 244, 248, 252: the path used when the name is None.
NamedGeneric(kind) ==
    CASE kind = "Workers" -> "workers-and-pages"
      [] kind = "Pages"   -> "workers-and-pages"
      [] kind = "R2"      -> "r2"
      [] kind = "D1"      -> "workers/d1"
      [] kind = "Kv"      -> "workers/kv"

\* main.rs:237, 241, 245, 249, 253: the text before {n} in the format string.
NamedPrefix(kind) ==
    CASE kind = "Workers" -> "workers/services/view/"
      [] kind = "Pages"   -> "pages/view/"
      [] kind = "R2"      -> "r2/default/buckets/"
      [] kind = "D1"      -> "workers/d1/databases/"
      [] kind = "Kv"      -> "workers/kv/namespaces/"

\* named_url taking an empty name for an absent one.
named_url_empty_is_absent(kind, name) ==
    IF IsSome(name) /\ Unwrap(name) # ""
    THEN account_url(NamedPrefix(kind) \o Unwrap(name))
    ELSE account_url(NamedGeneric(kind))

\* main.rs:235-254: name.map_or_else(|| account_url(generic),
\*                                   |n| account_url(&format!("prefix{n}")))
named_url(kind, name) ==
    IF IsSome(name)
    THEN account_url(NamedPrefix(kind) \o Unwrap(name))
    ELSE account_url(NamedGeneric(kind))

\* AccountPath with ZeroTrust given an arm of its own.
AccountPath_split_zero_trust(kind) ==
    CASE kind = "ZeroTrust"      -> "zero-trust"
      [] kind = "Access"         -> "access"
      [] kind = "Tunnels"        -> "access/tunnels"
      [] kind = "Stream"         -> "stream"
      [] kind = "Images"         -> "images"
      [] kind = "Queues"         -> "queues"
      [] kind = "Ai"             -> "ai"
      [] kind = "Vectorize"      -> "vectorize"
      [] kind = "Hyperdrive"     -> "hyperdrive"
      [] kind = "DurableObjects" -> "workers/durable-objects"
      [] kind = "Account"        -> ""
      [] kind = "Billing"        -> "billing"
      [] kind = "AuditLog"       -> "audit-log"
      [] kind = "Registrar"      -> "domains"
      [] kind = "Turnstile"      -> "turnstile"
      [] kind = "WebAnalytics"   -> "web-analytics"

\* main.rs:255-266, 268-270: the path each field-less command passes to
\* account_url.
AccountPath(kind) ==
    CASE kind \in {"ZeroTrust", "Access"} -> "access"
      [] kind = "Tunnels"        -> "access/tunnels"
      [] kind = "Stream"         -> "stream"
      [] kind = "Images"         -> "images"
      [] kind = "Queues"         -> "queues"
      [] kind = "Ai"             -> "ai"
      [] kind = "Vectorize"      -> "vectorize"
      [] kind = "Hyperdrive"     -> "hyperdrive"
      [] kind = "DurableObjects" -> "workers/durable-objects"
      [] kind = "Account"        -> ""
      [] kind = "Billing"        -> "billing"
      [] kind = "AuditLog"       -> "audit-log"
      [] kind = "Registrar"      -> "domains"
      [] kind = "Turnstile"      -> "turnstile"
      [] kind = "WebAnalytics"   -> "web-analytics"

\* The ApiTokens arm written with the account builder like its neighbours.
api_tokens_url_via_account == account_url("profile/api-tokens")

\* main.rs:267
api_tokens_url == DASH_BASE \o "/profile/api-tokens"

\* main.rs:272
dash_url == DASH_BASE

\* main.rs:209-273: the match that binds `url`.
resolve(cmd) ==
    CASE cmd.kind \in ZoneKinds   -> zone_url(Unwrap(cmd.arg), ZoneSubpath(cmd.kind))
      [] cmd.kind = "Security"    -> zone_url(Unwrap(cmd.arg), security_path(cmd.section))
      [] cmd.kind = "Logs"        -> logs_url(cmd.arg)
      [] cmd.kind \in NamedKinds  -> named_url(cmd.kind, cmd.arg)
      [] cmd.kind = "ApiTokens"   -> api_tokens_url
      [] cmd.kind = "Dash"        -> dash_url
      [] OTHER                    -> account_url(AccountPath(cmd.kind))

----------------------------------------------------------------------------
(* The run of main, main.rs:206-294 *)

\* main.rs:280: the number of tick strings the spinner cycles through.
NumTickStrings == 10

\* main.rs:287 and 293: the two messages.  U+2717 and U+2713 are the ballot
\* and check marks of the source.
FailureMessage(e) == "[U+2717] Failed to open browser: " \o e
SuccessMessage == "[U+2713] Opened"

Ok == [ok |-> TRUE, err |-> ""]
Err(e) == [ok |-> FALSE, err |-> e]

NoSpinner == [state |-> "none", msg |-> "", frame |-> 0]

Init ==
    /\ pc = "parse"
    /\ cli = NoCommand
    /\ url = None
    /\ spinner = NoSpinner
    /\ openCalls = <<>>
    /\ openResult = <<>>
    /\ stdout = <<>>
    /\ stderr = <<>>
    /\ exitCode = <<>>

\* main.rs:207: Cli::parse() returns a variant.
Parse ==
    /\ pc = "parse"
    /\ \E c \in Commands : cli' = c
    /\ pc' = "resolve"
    /\ UNCHANGED <<url, spinner, openCalls, openResult, stdout, stderr, exitCode>>

\* main.rs:207: Cli::parse() rejects the arguments: the parser prints the
\* usage error on the error stream and ends the process with its own
\* status, before anything else of main runs.
ParseFail ==
    /\ pc = "parse"
    /\ stderr' = Append(stderr, "error: usage")
    /\ exitCode' = <<2>>
    /\ pc' = "done"
    /\ UNCHANGED <<cli, url, spinner, openCalls, openResult, stdout>>

\* main.rs:209-273
Resolve ==
    /\ pc = "resolve"
    /\ url' = Some(resolve(cli))
    /\ pc' = "spinner"
    /\ UNCHANGED <<cli, spinner, openCalls, openResult, stdout, stderr, exitCode>>

\* main.rs:275-283: the spinner is created, styled, given its message and
\* set ticking.
StartSpinner ==
    /\ pc = "spinner"
    /\ spinner' = [state |-> "ticking", msg |-> "Opening in your browser...", frame |-> 0]
    /\ pc' = "open"
    /\ UNCHANGED <<cli, url, openCalls, openResult, stdout, stderr, exitCode>>

\* main.rs:283: the steady tick, driven by the spinner's own timer while the
\* spinner is ticking; it touches nothing but the frame.
Tick ==
    /\ spinner.state = "ticking"
    /\ exitCode = <<>>
    /\ spinner' = [spinner EXCEPT !.frame = (@ + 1) % NumTickStrings]
    /\ UNCHANGED <<pc, cli, url, openCalls, openResult, stdout, stderr, exitCode>>

\* main.rs:285: open::that(&url) is called.
OpenCall ==
    /\ pc = "open"
    /\ openCalls' = Append(openCalls, Unwrap(url))
    /\ pc' = "in_open"
    /\ UNCHANGED <<cli, url, spinner, openResult, stdout, stderr, exitCode>>

\* OpenReturn with one retry: the first failure goes back to the call.
OpenReturn_retry_once ==
    /\ pc = "in_open"
    /\ \E r \in {Ok} \cup {Err(e) : e \in OpenErrors} :
          /\ openResult' = <<r>>
          /\ pc' = IF r.ok THEN "sleep"
                   ELSE IF Len(openCalls) < 2 THEN "open" ELSE "fail_clear"
    /\ UNCHANGED <<cli, url, spinner, openCalls, stdout, stderr, exitCode>>

\* main.rs:285: open::that returns; `if let Err(e)` picks the branch.
OpenReturn ==
    /\ pc = "in_open"
    /\ \E r \in {Ok} \cup {Err(e) : e \in OpenErrors} :
          /\ openResult' = <<r>>
          /\ pc' = IF r.ok THEN "sleep" ELSE "fail_clear"
    /\ UNCHANGED <<cli, url, spinner, openCalls, stdout, stderr, exitCode>>

\* main.rs:286
FailClear ==
    /\ pc = "fail_clear"
    /\ spinner' = [spinner EXCEPT !.state = "cleared"]
    /\ pc' = "fail_print"
    /\ UNCHANGED <<cli, url, openCalls, openResult, stdout, stderr, exitCode>>

\* FailPrint with the message printed without the error `e`.
FailPrint_without_error ==
    /\ pc = "fail_print"
    /\ stderr' = Append(stderr, FailureMessage(""))
    /\ pc' = "fail_exit"
    /\ UNCHANGED <<cli, url, spinner, openCalls, openResult, stdout, exitCode>>

\* main.rs:287
FailPrint ==
    /\ pc = "fail_print"
    /\ stderr' = Append(stderr, FailureMessage(openResult[1].err))
    /\ pc' = "fail_exit"
    /\ UNCHANGED <<cli, url, spinner, openCalls, openResult, stdout, exitCode>>

\* main.rs:288
FailExit ==
    /\ pc = "fail_exit"
    /\ exitCode' = <<1>>
    /\ pc' = "done"
    /\ UNCHANGED <<cli, url, spinner, openCalls, openResult, stdout, stderr>>

\* main.rs:291
Sleep ==
    /\ pc = "sleep"
    /\ pc' = "clear"
    /\ UNCHANGED <<cli, url, spinner, openCalls, openResult, stdout, stderr, exitCode>>

\* main.rs:292
Clear ==
    /\ pc = "clear"
    /\ spinner' = [spinner EXCEPT !.state = "cleared"]
    /\ pc' = "print"
    /\ UNCHANGED <<cli, url, openCalls, openResult, stdout, stderr, exitCode>>

\* main.rs:293
PrintOpened ==
    /\ pc = "print"
    /\ stdout' = Append(stdout, SuccessMessage)
    /\ pc' = "return"
    /\ UNCHANGED <<cli, url, spinner, openCalls, openResult, stderr, exitCode>>

\* main.rs:294: main returns, the process ends with status 0.
Return ==
    /\ pc = "return"
    /\ exitCode' = <<0>>
    /\ pc' = "done"
    /\ UNCHANGED <<cli, url, spinner, openCalls, openResult, stdout, stderr>>

\* The steps of main that follow the return of open::that.
AfterOpen ==
    \/ FailClear
    \/ FailPrint
    \/ FailExit
    \/ Sleep
    \/ Clear
    \/ PrintOpened
    \/ Return

Next ==
    \/ Parse
    \/ ParseFail
    \/ Resolve
    \/ StartSpinner
    \/ Tick
    \/ OpenCall
    \/ OpenReturn
    \/ AfterOpen

Spec == Init /\ [][Next]_vars

\* main is one sequential thread: once open::that has returned, each of its
\* remaining steps is taken.
FairSpec == Spec /\ WF_vars(AfterOpen)

----------------------------------------------------------------------------
(* Properties *)

HasPrefix(s, p) == Len(s) >= Len(p) /\ SubSeq(s, 1, Len(p)) = p
HasSuffix(s, p) == Len(s) >= Len(p) /\ SubSeq(s, Len(s) - Len(p) + 1, Len(s)) = p

\* t occurs in s at position i.
OccursAt(s, t, i) == i >= 1 /\ i + Len(t) - 1 <= Len(s) /\ SubSeq(s, i, i + Len(t) - 1) = t
Contains(s, t) == \E i \in 1..(Len(s) + 1) : OccursAt(s, t, i)

\* The match of main has bound `url`.
Resolved == IsSome(url)

AccountRoot == DASH_BASE \o "/?to=/:account"

\* The subpaths the zone-scoped commands are documented with.
DocumentedSubpath ==
    [Dns |-> "dns", Analytics |-> "analytics", Ssl |-> "ssl-tls", Caching |-> "caching",
     Rules |-> "rules", Speed |-> "speed", Email |-> "email", Spectrum |-> "spectrum",
     Network |-> "network", Traffic |-> "traffic", Scrape |-> "content-protection",
     Zaraz |-> "zaraz"]

\* C1: for every zone z, each zone-scoped command with a subpath p resolves
\* to exactly DASH_BASE/?to=/:account/z/p with p non-empty, and Zone
\* resolves to exactly DASH_BASE/?to=/:account/z, with neither a subpath
\* nor a slash after z.
C1_ZoneUrlsExact ==
    (Resolved /\ cli.kind \in ZoneKinds) =>
        LET z == Unwrap(cli.arg)
            u == Unwrap(url)
        IN  IF cli.kind = "Zone"
            THEN u = AccountRoot \o "/" \o z
            ELSE /\ DocumentedSubpath[cli.kind] # ""
                 /\ u = AccountRoot \o "/" \o z \o "/" \o DocumentedSubpath[cli.kind]

C1_Witness ==
    /\ pc = "done"
    /\ cli = Cmd("Ssl", Some("z."), None)
    /\ url = Some("https://dash.cloudflare.com/?to=/:account/z./ssl-tls")

SecurityVocabulary == {"waf", "events", "ddos", "bots"}

\* C2: Security is total over its optional section: a section of the
\* vocabulary waf, events, ddos, bots yields the URL ending in
\* /z/security/<section>; every other section (the empty string and other
\* spellings included) and an absent section yield the one URL ending in
\* /z/security; and no section value ends the run before the launcher has
\* been called and has returned.
C2_SecuritySectionTotal ==
    (cli.kind = "Security") =>
        LET z == Unwrap(cli.arg)
            bare == AccountRoot \o "/" \o z \o "/security"
        IN  /\ Resolved =>
                 IF IsSome(cli.section) /\ Unwrap(cli.section) \in SecurityVocabulary
                 THEN /\ Unwrap(url) = bare \o "/" \o Unwrap(cli.section)
                      /\ HasSuffix(Unwrap(url), "/" \o z \o "/security/" \o Unwrap(cli.section))
                 ELSE /\ Unwrap(url) = bare
                      /\ HasSuffix(Unwrap(url), "/" \o z \o "/security")
            /\ exitCode # <<>> => (Resolved /\ openResult # <<>>)

C2_Witness ==
    /\ pc = "done"
    /\ cli = Cmd("Security", Some("example.com"), Some("Bots"))
    /\ url = Some("https://dash.cloudflare.com/?to=/:account/example.com/security")

\* The generic paths and the name prefixes the commands with an optional
\* resource name are documented with.
DocumentedGeneric ==
    [Workers |-> "workers-and-pages", Pages |-> "workers-and-pages", R2 |-> "r2",
     D1 |-> "workers/d1", Kv |-> "workers/kv"]

DocumentedPrefix ==
    [Workers |-> "workers/services/view/", Pages |-> "pages/view/",
     R2 |-> "r2/default/buckets/", D1 |-> "workers/d1/databases/",
     Kv |-> "workers/kv/namespaces/"]

\* C3: Workers, Pages, R2, D1 and Kv resolve to the generic account URL of
\* the command when the name is absent, and to
\* DASH_BASE/?to=/:account/<prefix><n> when a name n is present, n copied
\* as it is, whatever string it is (empty, or containing "/").
C3_NamedUrlsVerbatim ==
    (Resolved /\ cli.kind \in NamedKinds) =>
        IF cli.arg = None
        THEN Unwrap(url) = AccountRoot \o "/" \o DocumentedGeneric[cli.kind]
        ELSE Unwrap(url) = AccountRoot \o "/" \o DocumentedPrefix[cli.kind] \o Unwrap(cli.arg)

C3_Witness ==
    /\ pc = "done"
    /\ cli = Cmd("R2", Some("z/"), None)
    /\ url = Some("https://dash.cloudflare.com/?to=/:account/r2/default/buckets/z/")

IsAccountLogs(u) == u = AccountRoot \o "/logs"
IsZoneLogs(u) ==
    /\ HasPrefix(u, AccountRoot \o "/")
    /\ HasSuffix(u, "/analytics/logs")
    /\ Len(u) >= Len(AccountRoot \o "/") + Len("/analytics/logs")

\* C4: Logs without a zone resolves to DASH_BASE/?to=/:account/logs, Logs
\* with a zone z to DASH_BASE/?to=/:account/z/analytics/logs, and the URL
\* is of exactly one of the two forms.
C4_LogsDispatch ==
    (Resolved /\ cli.kind = "Logs") =>
        LET u == Unwrap(url)
        IN  /\ cli.arg = None => u = AccountRoot \o "/logs"
            /\ cli.arg # None => u = AccountRoot \o "/" \o Unwrap(cli.arg) \o "/analytics/logs"
            /\ IsAccountLogs(u) # IsZoneLogs(u)
            /\ IsZoneLogs(u) <=> IsSome(cli.arg)

C4_Witness ==
    /\ pc = "done"
    /\ cli = Cmd("Logs", Some(""), None)
    /\ url = Some("https://dash.cloudflare.com/?to=/:account//analytics/logs")

\* The run got past argument parsing.
Parsed == cli # NoCommand

C6_OpenCalledOnce ==
    /\ [](/\ Len(openCalls) <= 1
          /\ openCalls # <<>> => (Resolved /\ openCalls = <<Unwrap(url)>>)
          /\ openResult # <<>> => Len(openCalls) = 1
          /\ (Parsed /\ exitCode # <<>>) => (Len(openCalls) = 1 /\ openResult # <<>>))
    /\ (openResult # <<>>) ~> (pc = "done" /\ exitCode # <<>> /\ Len(openCalls) = 1)

C6_Witness ==
    /\ pc = "done"
    /\ cli.kind = "Workers"
    /\ openResult = <<Err("Launcher xdg-open failed with exit status: 3")>>
    /\ openCalls = <<"https://dash.cloudflare.com/?to=/:account/workers-and-pages">>

\* <dashboard-base>/?to=/:account[/<zone>][/<path>]
IsAccountForm(u) == u = AccountRoot \/ HasPrefix(u, AccountRoot \o "/")

\* <dashboard-base>/<fixed-path>: the origin, a slash and a path that does
\* not depend on an argument.
IsFixedForm(u) ==
    /\ HasPrefix(u, DASH_BASE \o "/")
    /\ Len(u) > Len(DASH_BASE \o "/")
    /\ \A c \in Commands : c.kind = cli.kind => resolve(c) = u

\* C7 as stated: every resolved URL is of the account form or of the fixed
\* form.
C7_Original ==
    Resolved => (IsAccountForm(Unwrap(url)) \/ IsFixedForm(Unwrap(url)))

\* C7: every resolved URL is of the account form
\* DASH_BASE/?to=/:account[/<zone>][/<path>] or of the fixed form
\* DASH_BASE/<fixed-path>, except that of Dash, which is DASH_BASE itself,
\* with neither a slash nor a path after the origin.
C7_UrlForms ==
    Resolved =>
        IF cli.kind = "Dash"
        THEN Unwrap(url) = DASH_BASE
        ELSE IsAccountForm(Unwrap(url)) \/ IsFixedForm(Unwrap(url))

C7_Witness ==
    /\ pc = "done"
    /\ cli.kind = "Dash"
    /\ openCalls = <<"https://dash.cloudflare.com">>

\* In u, "/example.com/" is followed at once by t, and t ends u.
ZoneThenSubpathEnds(u, t) == HasSuffix(u, "/example.com/" \o t) /\ Contains(u, "/example.com/" \o t)

\* C8 as stated: with zone example.com the URL of each of the thirteen
\* zone-scoped commands contains "/example.com/" followed at once by the
\* subpath of the command, by nothing for Zone.
C8_Original ==
    (Resolved /\ cli.kind \in ZoneKinds /\ cli.arg = Some("example.com")) =>
        ZoneThenSubpathEnds(Unwrap(url),
                            IF cli.kind = "Zone" THEN "" ELSE DocumentedSubpath[cli.kind])

\* C8: with zone example.com the URL of each of the twelve zone-scoped
\* commands with a subpath contains "/example.com/" followed at once by
\* that subpath; the URL of Zone ends in "/example.com" and does not
\* contain "/example.com/".
C8_ExampleZoneSubstring ==
    (Resolved /\ cli.kind \in ZoneKinds /\ cli.arg = Some("example.com")) =>
        IF cli.kind = "Zone"
        THEN /\ HasSuffix(Unwrap(url), "/example.com")
             /\ ~Contains(Unwrap(url), "/example.com/")
        ELSE ZoneThenSubpathEnds(Unwrap(url), DocumentedSubpath[cli.kind])

C8_Witness ==
    /\ pc = "done"
    /\ cli = Cmd("Zone", Some("example.com"), None)
    /\ url = Some("https://dash.cloudflare.com/?to=/:account/example.com")

\* C9 as stated: of the commands without arguments ApiTokens alone is not
\* under the account root.
C9_Original ==
    (Resolved /\ cli.kind \in UnitKinds) =>
        IF cli.kind = "ApiTokens"
        THEN Unwrap(url) = DASH_BASE \o "/profile/api-tokens"
        ELSE HasPrefix(Unwrap(url), AccountRoot)

\* C9: of the commands without arguments, ApiTokens resolves to
\* DASH_BASE/profile/api-tokens, Dash to DASH_BASE itself, and every other
\* one to a URL that begins with DASH_BASE/?to=/:account; ApiTokens and
\* Dash are the two that are not under the account root.
C9_UnitCommandRoots ==
    (Resolved /\ cli.kind \in UnitKinds) =>
        CASE cli.kind = "ApiTokens" ->
                 /\ Unwrap(url) = DASH_BASE \o "/profile/api-tokens"
                 /\ ~HasPrefix(Unwrap(url), AccountRoot)
          [] cli.kind = "Dash" ->
                 /\ Unwrap(url) = DASH_BASE
                 /\ ~HasPrefix(Unwrap(url), AccountRoot)
          [] OTHER -> HasPrefix(Unwrap(url), AccountRoot)

C9_Witness ==
    /\ pc = "done"
    /\ cli.kind = "ApiTokens"
    /\ url = Some("https://dash.cloudflare.com/profile/api-tokens")

\* C10: ZeroTrust and Access resolve to the same URL,
\* DASH_BASE/?to=/:account/access, and in both runs that URL is the one
\* argument open::that is called with.
C10_ZeroTrustIsAccess ==
    (cli.kind \in {"ZeroTrust", "Access"}) =>
        /\ Resolved => url = Some(DASH_BASE \o "/?to=/:account/access")
        /\ openCalls # <<>> => openCalls = <<DASH_BASE \o "/?to=/:account/access">>
        /\ exitCode # <<>> => openCalls # <<>>

C10_Witness ==
    /\ pc = "done"
    /\ cli.kind = "ZeroTrust"
    /\ openCalls = <<"https://dash.cloudflare.com/?to=/:account/access">>

====
